---- MODULE Spec2Model ----
(***************************************************************************)
(* A model of asset_reporter.py: the tag stream parser, the inversion of   *)
(* a snapshot, the three-way diff, the scan progress computation and the   *)
(* report generation of main().                                            *)
(*                                                                         *)
(* A tag ID is a Python string, modelled as a tuple of one-character       *)
(* strings, so that str.startswith is computed and not assumed.  A Python  *)
(* value that may be None is modelled as a tuple of length 0 (None) or 1.  *)
(* A dictionary is a function; the order in which a dictionary of          *)
(* location tags is iterated (unspecified in Python 2) is the state        *)
(* variable iter_order.  The program is Python 2 (it.next(), line 34): the  *)
(* division of two integers rounds down.                                   *)
(*                                                                         *)
(* Left out: the names of the scan files (a file stands for its date, so   *)
(* two files never share a date), the rows of a scan file (a file stands   *)
(* for its list of tag IDs) and the names looked up in assets.yml.         *)
(***************************************************************************)
EXTENDS Integers, Sequences, FiniteSets, TLC

VARIABLES
  pc,              \* the control point of the run
  scans,           \* the scans/ directory: scan date -> the tag IDs of its file
  unread,          \* read_scans: the dates of the files not yet read
  assets_db,       \* the metadata of assets.yml: known locations, defunct assets
  iter_order,      \* the iteration order of a dictionary keyed by location tags
  assets_by_date,  \* AssetReporter.assets_by_date
  todo,            \* gen_report: the sorted scan dates still to visit
  prev_assets,     \* gen_report / _report_asset_changes: prev_assets
  curr_assets,     \* gen_report / _report_*: curr_assets
  output,          \* what has been printed, in order
  tag_ids,         \* get_tags_by_location: its argument
  pos,             \* get_tags_by_location: the position of the for loop
  parser,          \* get_tags_by_location: tags_by_location and location
  snapshot         \* get_tags_by_location: the returned dictionary

vars == <<pc, scans, unread, assets_db, iter_order, assets_by_date, todo,
          prev_assets, curr_assets, output, tag_ids, pos, parser, snapshot>>

-----------------------------------------------------------------------------
(* Bounds of the model.                                                     *)

MaxTags == 4        \* the longest raw tag list given to the parser alone
MaxAssets == 1      \* the longest asset list of a location given to the diff
MaxLocations == 4   \* the number of location tags given to the progress
MaxScans == 3       \* the number of scan files of a run

-----------------------------------------------------------------------------
(* Python values.                                                           *)

None == << >>
Some(x) == <<x>>

Range(s) == {s[i] : i \in 1..Len(s)}

EmptyDict == [k \in {} |-> << >>]

\* d[k] = v
DictSet(d, k, v) == [x \in (DOMAIN d) \cup {k} |-> IF x = k THEN v ELSE d[x]]

\* s.startswith(prefix)
StartsWith(s, prefix) ==
  /\ Len(s) >= Len(prefix)
  /\ SubSeq(s, 1, Len(prefix)) = prefix

\* The sequences over S of length at most n.
SeqsUpTo(S, n) == UNION {[1..k -> S] : k \in 0..n}

\* The permutations of the finite set S, as sequences.
Perms(S) ==
  {p \in [1..Cardinality(S) -> S] : \A i, j \in 1..Cardinality(S) : p[i] = p[j] => i = j}

-----------------------------------------------------------------------------
(* Tag IDs.                                                                 *)

LOCAT == <<"L", "O", "C", "A", "T">>

Digit(n) == <<"0", "1", "2", "3", "4", "5", "6", "7", "8", "9">>[n + 1]

LocationTag(n) == LOCAT \o <<Digit(n)>>
AssetTag(n) == <<"A", Digit(n)>>

\* A tag that is a proper prefix of the location prefix: an asset tag.
LOCA == <<"L", "O", "C", "A">>

\* The tags of the parser's inputs.
ParseTags == {LocationTag(1), LocationTag(2), AssetTag(1), AssetTag(2), LOCA}

-----------------------------------------------------------------------------
(* get_tags_by_location                                                     *)

\* The locals before the loop.
ParseInit == [tags_by_location |-> EmptyDict, location |-> None, raised |-> FALSE]

\* A plausible bug: an asset tag with no location is dropped, not refused.
ParseStepDropping(st, tag_id) ==
  IF StartsWith(tag_id, LOCAT)
  THEN [st EXCEPT !.tags_by_location = DictSet(@, tag_id, << >>),
                  !.location = Some(tag_id)]
  ELSE IF st.location = None
       THEN st
       ELSE [st EXCEPT !.tags_by_location =
               DictSet(@, st.location[1], Append(@[st.location[1]], tag_id))]

\* A plausible bug: the asset is put in front of its location's list.
ParseStepPrepending(st, tag_id) ==
  IF StartsWith(tag_id, LOCAT)
  THEN [st EXCEPT !.tags_by_location = DictSet(@, tag_id, << >>),
                  !.location = Some(tag_id)]
  ELSE IF st.location = None
       THEN [st EXCEPT !.raised = TRUE]
       ELSE [st EXCEPT !.tags_by_location =
               DictSet(@, st.location[1], <<tag_id>> \o @[st.location[1]])]

\* One iteration of the for loop.
ParseStep(st, tag_id) ==
  IF StartsWith(tag_id, LOCAT)
  THEN [st EXCEPT !.tags_by_location = DictSet(@, tag_id, << >>),
                  !.location = Some(tag_id)]
  ELSE IF st.location = None
       THEN [st EXCEPT !.raised = TRUE]
       ELSE [st EXCEPT !.tags_by_location =
               DictSet(@, st.location[1], Append(@[st.location[1]], tag_id))]

RECURSIVE ParseFrom(_, _, _)
ParseFrom(st, tags, i) ==
  IF st.raised \/ i > Len(tags)
  THEN st
  ELSE ParseFrom(ParseStep(st, tags[i]), tags, i + 1)

\* The whole function: the dictionary, or raised (AssetReporterError).
get_tags_by_location(tags) ==
  LET st == ParseFrom(ParseInit, tags, 1)
  IN  IF st.raised
      THEN [raised |-> TRUE, value |-> EmptyDict]
      ELSE [raised |-> FALSE, value |-> st.tags_by_location]

-----------------------------------------------------------------------------
(* The parser alone, one loop iteration per step.                           *)

Idle ==
  /\ scans = EmptyDict
  /\ unread = {}
  /\ assets_db = [locations |-> {}, defunct |-> {}]
  /\ iter_order = << >>
  /\ assets_by_date = EmptyDict
  /\ todo = << >>
  /\ prev_assets = None
  /\ curr_assets = None
  /\ output = << >>

InitParse ==
  /\ Idle
  /\ pc = "parse"
  /\ tag_ids \in SeqsUpTo(ParseTags, MaxTags)
  /\ pos = 1
  /\ parser = ParseInit
  /\ snapshot = None

ParseLoop ==
  /\ pc = "parse"
  /\ pos <= Len(tag_ids)
  /\ parser' = ParseStep(parser, tag_ids[pos])
  /\ IF parser'.raised
     THEN pc' = "raised" /\ pos' = pos
     ELSE pc' = pc /\ pos' = pos + 1
  /\ UNCHANGED <<scans, unread, assets_db, iter_order, assets_by_date, todo,
                 prev_assets, curr_assets, output, tag_ids, snapshot>>

ParseReturn ==
  /\ pc = "parse"
  /\ pos > Len(tag_ids)
  /\ snapshot' = Some(parser.tags_by_location)
  /\ pc' = "returned"
  /\ UNCHANGED <<scans, unread, assets_db, iter_order, assets_by_date, todo,
                 prev_assets, curr_assets, output, tag_ids, pos, parser>>

NextParse == ParseLoop \/ ParseReturn

SpecParse == InitParse /\ [][NextParse]_vars

-----------------------------------------------------------------------------
(* invert, get_moved_assets, AssetReporter._report_asset_changes            *)

\* The keys of dictionary d in the order a loop over d visits them.
Keys(d, order) == SelectSeq(order, LAMBDA k : k \in DOMAIN d)

\* dict((v, k) for k in d for v in d[k]): of the pairs with the same v, the
\* last one generated stays.
invert(d, order) ==
  LET keys == Keys(d, order)
      values == UNION {Range(d[k]) : k \in DOMAIN d}
      Last(v) == CHOOSE i \in 1..Len(keys) :
                   /\ v \in Range(d[keys[i]])
                   /\ \A j \in (i + 1)..Len(keys) : v \notin Range(d[keys[j]])
  IN  [v \in values |-> keys[Last(v)]]

\* A plausible bug: the comparison of the two locations is left out.
get_moved_assets_unfiltered(curr_assets_loc, prev_assets_loc) ==
  {<<asset, prev_assets_loc[asset], curr_assets_loc[asset]>> :
     asset \in {a \in DOMAIN curr_assets_loc : a \in DOMAIN prev_assets_loc}}

\* The list has one tuple per key of curr_assets_loc at most, in the order of
\* a loop over a dictionary: it is modelled as the set of its tuples.
get_moved_assets(curr_assets_loc, prev_assets_loc) ==
  {<<asset, prev_assets_loc[asset], curr_assets_loc[asset]>> :
     asset \in {a \in DOMAIN curr_assets_loc :
                  /\ a \in DOMAIN prev_assets_loc
                  /\ curr_assets_loc[a] # prev_assets_loc[a]}}

\* A plausible bug: the status is never found.
is_defunct_never(db, asset) == FALSE

\* assets_db["assets"][asset]["status"] == "Defunct", False when absent.
is_defunct(db, asset) == asset \in db.defunct

\* A plausible bug: the assets of the previous scan are not taken out.
new_assets_all(prev_assets_loc, curr_assets_loc) == DOMAIN curr_assets_loc

new_assets(prev_assets_loc, curr_assets_loc) ==
  (DOMAIN curr_assets_loc) \ (DOMAIN prev_assets_loc)

missed_assets(prev_assets_loc, curr_assets_loc) ==
  (DOMAIN prev_assets_loc) \ (DOMAIN curr_assets_loc)

\* The rows printed: (asset, location) for a new and for a missing asset,
\* (asset, previous location, current location) for a moved one.  The names
\* of assets and locations are left to the metadata lookup.
report_asset_changes(prev, curr, db, order) ==
  LET prev_assets_loc == invert(prev, order)
      curr_assets_loc == invert(curr, order)
  IN  [kind |-> "changes",
       new |-> {<<a, curr_assets_loc[a]>> :
                  a \in new_assets(prev_assets_loc, curr_assets_loc)},
       missing |-> {<<a, prev_assets_loc[a]>> :
                      a \in {m \in missed_assets(prev_assets_loc, curr_assets_loc) :
                               ~is_defunct(db, m)}},
       moved |-> get_moved_assets(curr_assets_loc, prev_assets_loc)]

-----------------------------------------------------------------------------
(* The diff alone.                                                          *)

DiffLocations == {LocationTag(1), LocationTag(2)}
DiffAssets == {AssetTag(1), AssetTag(2), AssetTag(3)}

\* The dictionaries from some of the locations to asset lists of length <= n.
Snapshots(locations, assets, n) ==
  UNION {[K -> SeqsUpTo(assets, n)] : K \in SUBSET locations}

InitDiff ==
  /\ pc = "diff"
  /\ scans = EmptyDict
  /\ unread = {}
  /\ assets_db \in [locations : {DiffLocations},
                    defunct : SUBSET {AssetTag(1), AssetTag(2)}]
  /\ iter_order \in Perms(DiffLocations)
  /\ assets_by_date = EmptyDict
  /\ todo = << >>
  /\ prev_assets \in {Some(s) : s \in Snapshots(DiffLocations, DiffAssets, MaxAssets)}
  /\ curr_assets \in {Some(s) : s \in Snapshots(DiffLocations, DiffAssets, MaxAssets)}
  /\ output = << >>
  /\ tag_ids = << >>
  /\ pos = 1
  /\ parser = ParseInit
  /\ snapshot = None

ReportAssetChanges ==
  /\ pc = "diff"
  /\ output' = Append(output, report_asset_changes(prev_assets[1], curr_assets[1],
                                                    assets_db, iter_order))
  /\ pc' = "diffed"
  /\ UNCHANGED <<scans, unread, assets_db, iter_order, assets_by_date, todo,
                 prev_assets, curr_assets, tag_ids, pos, parser, snapshot>>

NextDiff == ReportAssetChanges

SpecDiff == InitDiff /\ [][NextDiff]_vars

-----------------------------------------------------------------------------
(* AssetReporter._report_scan_progress                                      *)

percentage_to_color == <<"red", "yellow", "lime", "lime">>

\* (len(curr_locations) * 100) / len(all_locations), on integers.
RawPercentage(curr, db) ==
  (Cardinality(DOMAIN curr) * 100) \div Cardinality(db.locations)

\* A plausible bug: the percentage is not capped.
ClampUncapped(percentage) == IF percentage = 0 THEN 1 ELSE percentage

\* Lines 165 to 170: 0 becomes 1, more than 100 becomes 100.
Clamp(percentage) ==
  LET floored == IF percentage = 0 THEN 1 ELSE percentage
  IN  IF floored > 100 THEN 100 ELSE floored

\* int(percentage / 33.33)
ColorIndex(percentage) == (percentage * 100) \div 3333

\* What is printed: the percentage, the colour, the two counts and the missed
\* locations; or the exception raised instead.
report_scan_progress(curr, db) ==
  IF db.locations = {}
  THEN [kind |-> "ZeroDivisionError"]
  ELSE LET percentage == Clamp(RawPercentage(curr, db))
           index == ColorIndex(percentage)
       IN  IF index >= Len(percentage_to_color)
           THEN [kind |-> "IndexError"]
           ELSE [kind |-> "progress",
                 percentage |-> percentage,
                 color_index |-> index,
                 color |-> percentage_to_color[index + 1],
                 present |-> Cardinality(DOMAIN curr),
                 total |-> Cardinality(db.locations),
                 missed |-> db.locations \ DOMAIN curr]

-----------------------------------------------------------------------------
(* The progress alone.                                                      *)

ProgressLocations == {LocationTag(n) : n \in 1..MaxLocations}

InitProgress ==
  /\ pc = "progress"
  /\ scans = EmptyDict
  /\ unread = {}
  /\ assets_db \in [locations : SUBSET ProgressLocations, defunct : {{}}]
  /\ iter_order = << >>
  /\ assets_by_date = EmptyDict
  /\ todo = << >>
  /\ prev_assets = None
  /\ curr_assets \in {Some(s) : s \in UNION {[K -> {<< >>, <<AssetTag(1)>>}] :
                                              K \in SUBSET ProgressLocations}}
  /\ output = << >>
  /\ tag_ids = << >>
  /\ pos = 1
  /\ parser = ParseInit
  /\ snapshot = None

ReportScanProgress ==
  /\ pc = "progress"
  /\ LET progress == report_scan_progress(curr_assets[1], assets_db)
     IN  /\ output' = Append(output, progress)
         /\ pc' = IF progress.kind = "progress" THEN "progressed" ELSE "crashed"
  /\ UNCHANGED <<scans, unread, assets_db, iter_order, assets_by_date, todo,
                 prev_assets, curr_assets, tag_ids, pos, parser, snapshot>>

NextProgress == ReportScanProgress

SpecProgress == InitProgress /\ [][NextProgress]_vars

-----------------------------------------------------------------------------
(* AssetReporter.read_scans, AssetReporter.gen_report, main                 *)

\* A plausible bug: the dates are visited latest first.
sorted_descending(S) ==
  CHOOSE q \in [1..Cardinality(S) -> S] :
    \A i, j \in 1..Cardinality(S) : i < j => q[i] > q[j]

\* sorted(): the elements of the set of integers S, ascending.
sorted(S) ==
  CHOOSE q \in [1..Cardinality(S) -> S] :
    \A i, j \in 1..Cardinality(S) : i < j => q[i] < q[j]

\* max() of a non-empty set of integers.
max(S) == CHOOSE m \in S : \A x \in S : x <= m

\* The contents of the scan files of a run.
ScanContents ==
  { << >>,
    <<LocationTag(1), AssetTag(1), AssetTag(2)>>,
    <<LocationTag(1), AssetTag(1), LocationTag(2), AssetTag(2)>>,
    <<LocationTag(2), AssetTag(1)>>,
    <<AssetTag(1), LocationTag(1)>> }

\* The lines printed before the inventory: the title and the first heading.
ReportHead == <<[kind |-> "header"], [kind |-> "inventory_heading"]>>

\* _report_assets_by_location: one table per location of the latest scan (the
\* grouping of its assets by type name is left to the rendering).
report_assets_by_location(assets) == [kind |-> "inventory", by_location |-> assets]

Init ==
  /\ pc = "read_scans"
  /\ scans \in UNION {[D -> ScanContents] : D \in SUBSET (1..MaxScans)}
  /\ unread = DOMAIN scans
  /\ assets_db \in [locations : SUBSET {LocationTag(1), LocationTag(2)},
                    defunct : SUBSET {AssetTag(1)}]
  /\ iter_order \in Perms({LocationTag(1), LocationTag(2)})
  /\ assets_by_date = EmptyDict
  /\ todo = << >>
  /\ prev_assets = None
  /\ curr_assets = None
  /\ output = << >>
  /\ tag_ids = << >>
  /\ pos = 1
  /\ parser = ParseInit
  /\ snapshot = None

\* One iteration of the loop of read_scans: os.listdir gives the files in any
\* order.  An AssetReporterError ends the run in main, which prints it.
ReadScan ==
  /\ pc = "read_scans"
  /\ \E scan_date \in unread :
       LET tags_by_location == get_tags_by_location(scans[scan_date])
       IN  IF tags_by_location.raised
           THEN /\ pc' = "error"
                /\ output' = Append(output, [kind |-> "error"])
                /\ UNCHANGED <<unread, assets_by_date>>
           ELSE /\ assets_by_date' =
                     DictSet(assets_by_date, scan_date, tags_by_location.value)
                /\ unread' = unread \ {scan_date}
                /\ UNCHANGED <<pc, output>>
  /\ UNCHANGED <<scans, assets_db, iter_order, todo, prev_assets, curr_assets,
                 tag_ids, pos, parser, snapshot>>

\* gen_report up to its loop: max() of no dates is a ValueError, which main
\* does not catch.
GenReportStart ==
  /\ pc = "read_scans"
  /\ unread = {}
  /\ IF DOMAIN assets_by_date = {}
     THEN /\ output' = output \o ReportHead
          /\ pc' = "crashed"
          /\ UNCHANGED todo
     ELSE LET last_scan_date == max(DOMAIN assets_by_date)
              last_assets == assets_by_date[last_scan_date]
          IN  /\ output' = output \o ReportHead
                             \o <<report_assets_by_location(last_assets),
                                  [kind |-> "changes_heading"]>>
              /\ todo' = sorted(DOMAIN assets_by_date)
              /\ pc' = "changes"
  /\ UNCHANGED <<scans, unread, assets_db, iter_order, assets_by_date,
                 prev_assets, curr_assets, tag_ids, pos, parser, snapshot>>

\* One iteration of the loop of gen_report.  An exception of
\* _report_scan_progress is not caught by main.
ReportScanDate ==
  /\ pc = "changes"
  /\ todo # << >>
  /\ LET scan_date == Head(todo)
         progress == report_scan_progress(assets_by_date[scan_date], assets_db)
         heading == [kind |-> "date_heading", date |-> scan_date]
     IN  /\ prev_assets' = curr_assets
         /\ curr_assets' = Some(assets_by_date[scan_date])
         /\ todo' = Tail(todo)
         /\ IF curr_assets = None
            THEN UNCHANGED <<pc, output>>
            ELSE IF progress.kind # "progress"
            THEN /\ output' = Append(output, heading)
                 /\ pc' = "crashed"
            ELSE /\ output' = output \o
                     <<heading, progress,
                       report_asset_changes(curr_assets[1], assets_by_date[scan_date],
                                            assets_db, iter_order)>>
                 /\ pc' = pc
  /\ UNCHANGED <<scans, unread, assets_db, iter_order, assets_by_date,
                 tag_ids, pos, parser, snapshot>>

GenReportEnd ==
  /\ pc = "changes"
  /\ todo = << >>
  /\ pc' = "done"
  /\ UNCHANGED <<scans, unread, assets_db, iter_order, assets_by_date, todo,
                 prev_assets, curr_assets, output, tag_ids, pos, parser, snapshot>>

Next == ReadScan \/ GenReportStart \/ ReportScanDate \/ GenReportEnd

Spec == Init /\ [][Next]_vars

-----------------------------------------------------------------------------
(* Properties of the parser, under SpecParse.                               *)

IsLocationTag(tag) == StartsWith(tag, LOCAT)

BeginsWithLocation(tags) == tags # << >> /\ IsLocationTag(tags[1])

\* The nearest location tag at or before position i of tags.
NearestLocation(tags, i) ==
  LET j == CHOOSE j \in 1..i :
             /\ IsLocationTag(tags[j])
             /\ \A k \in (j + 1)..i : ~IsLocationTag(tags[k])
  IN  tags[j]

\* C1: when the parser returns for a tag list that begins with a location
\* tag, every asset tag of the list is in the snapshot under its nearest
\* preceding location tag, also when a location tag occurs again later.
C1_AssetsUnderNearestLocation ==
  (pc = "returned" /\ BeginsWithLocation(tag_ids)) =>
    \A i \in 1..Len(tag_ids) :
      ~IsLocationTag(tag_ids[i]) =>
        LET loc == NearestLocation(tag_ids, i)
        IN  /\ loc \in DOMAIN snapshot[1]
            /\ tag_ids[i] \in Range(snapshot[1][loc])

\* The distinct location tags of tags, in the order of their first occurrence.
ScanOrder(tags) ==
  LET first == {i \in 1..Len(tags) :
                  /\ IsLocationTag(tags[i])
                  /\ \A j \in 1..(i - 1) : tags[j] # tags[i]}
      Nth(k) == CHOOSE i \in first : Cardinality({j \in first : j < i}) = k - 1
  IN  [k \in 1..Cardinality(first) |-> tags[Nth(k)]]

\* Each location of keys followed by its asset list.
RECURSIVE Flatten(_, _)
Flatten(snap, keys) ==
  IF keys = << >>
  THEN << >>
  ELSE <<Head(keys)>> \o snap[Head(keys)] \o Flatten(snap, Tail(keys))

\* No location tag occurs twice in tags.
NoRevisit(tags) ==
  \A i, j \in 1..Len(tags) : (IsLocationTag(tags[i]) /\ tags[i] = tags[j]) => i = j

\* C2, as claimed: for every tag list that begins with a location tag,
\* revisited locations included, the snapshot flattened in scan order is the
\* tag list.
C2_RoundTrip ==
  (pc = "returned" /\ BeginsWithLocation(tag_ids)) =>
    Flatten(snapshot[1], ScanOrder(tag_ids)) = tag_ids

\* C2, amended: for every tag list that begins with a location tag and in
\* which no location tag occurs twice, the snapshot flattened in scan order
\* (each location followed by its asset list) is the tag list.
C2_RoundTripNoRevisit ==
  (pc = "returned" /\ BeginsWithLocation(tag_ids) /\ NoRevisit(tag_ids)) =>
    Flatten(snapshot[1], ScanOrder(tag_ids)) = tag_ids

\* A returned parse of two distinct locations, one of them empty and one with
\* two assets.
C2_Witness ==
  /\ pc = "returned"
  /\ BeginsWithLocation(tag_ids)
  /\ NoRevisit(tag_ids)
  /\ Cardinality(DOMAIN snapshot[1]) = 2
  /\ \E loc \in DOMAIN snapshot[1] : snapshot[1][loc] = << >>
  /\ \E loc \in DOMAIN snapshot[1] : Len(snapshot[1][loc]) = 2

\* C3: a non-empty tag list whose first tag is not a location tag is refused
\* at its first tag and no snapshot is returned; an empty tag list, or one
\* whose first tag is a location tag, is never refused.
C3_StructuralError ==
  /\ (tag_ids # << >> /\ ~IsLocationTag(tag_ids[1])) =>
       /\ snapshot = None
       /\ pc = "raised" \/ (pc = "parse" /\ pos = 1)
       /\ pc = "raised" => (pos = 1 /\ parser.tags_by_location = EmptyDict)
  /\ (tag_ids = << >> \/ IsLocationTag(tag_ids[1])) => pc # "raised"

\* A refused tag list of several tags, location tags among them.
C3_Witness ==
  /\ pc = "raised"
  /\ Len(tag_ids) >= 3
  /\ \E i \in 2..Len(tag_ids) : IsLocationTag(tag_ids[i])

-----------------------------------------------------------------------------
(* Properties of the diff, under SpecDiff.                                  *)

\* The assets listed in a snapshot, and the locations that list an asset.
AssetsOf(snap) == UNION {Range(snap[k]) : k \in DOMAIN snap}
LocationsOf(snap, asset) == {k \in DOMAIN snap : asset \in Range(snap[k])}

\* No asset is listed under two locations of the snapshot.
SingleLocation(snap) ==
  \A asset \in AssetsOf(snap) : Cardinality(LocationsOf(snap, asset)) = 1

\* The assets of a set of rows.
RowAssets(rows) == {row[1] : row \in rows}

\* The changes printed by the diff.
Changes == output[Len(output)]

\* C4: with no asset listed under two locations of either snapshot, an asset
\* under L1 before and L2 now, L1 # L2, has the one moved row (asset, L1, L2)
\* and no new or missing row; an asset under the same location in both has no
\* row; no asset has rows of two kinds.
C4_MovedAssets ==
  (pc = "diffed" /\ SingleLocation(prev_assets[1]) /\ SingleLocation(curr_assets[1])) =>
    /\ \A asset \in AssetsOf(prev_assets[1]) \cap AssetsOf(curr_assets[1]) :
         \A L1 \in LocationsOf(prev_assets[1], asset) :
           \A L2 \in LocationsOf(curr_assets[1], asset) :
             /\ asset \notin RowAssets(Changes.new)
             /\ asset \notin RowAssets(Changes.missing)
             /\ {row \in Changes.moved : row[1] = asset}
                  = IF L1 # L2 THEN {<<asset, L1, L2>>} ELSE {}
    /\ RowAssets(Changes.new) \cap RowAssets(Changes.missing) = {}
    /\ RowAssets(Changes.new) \cap RowAssets(Changes.moved) = {}
    /\ RowAssets(Changes.missing) \cap RowAssets(Changes.moved) = {}

\* A diff with a new, a missing and a moved asset, and one that stayed.
C4_Witness ==
  /\ pc = "diffed"
  /\ SingleLocation(prev_assets[1])
  /\ SingleLocation(curr_assets[1])
  /\ Changes.new # {}
  /\ Changes.missing # {}
  /\ Changes.moved # {}

\* C5: the missing rows are one per asset of the previous snapshot that is
\* not in the current snapshot and is not defunct, so a defunct asset has no
\* missing row; the new and the moved rows are those printed when no asset
\* is defunct.
C5_DefunctSuppression ==
  pc = "diffed" =>
    LET nobody == [assets_db EXCEPT !.defunct = {}]
        plain == report_asset_changes(prev_assets[1], curr_assets[1], nobody, iter_order)
    IN  /\ RowAssets(Changes.missing)
             = {asset \in AssetsOf(prev_assets[1]) \ AssetsOf(curr_assets[1]) :
                  asset \notin assets_db.defunct}
        /\ Cardinality(Changes.missing) = Cardinality(RowAssets(Changes.missing))
        /\ \A row \in Changes.missing : row[2] \in LocationsOf(prev_assets[1], row[1])
        /\ Changes.new = plain.new
        /\ Changes.moved = plain.moved

\* A diff in which a defunct asset and another asset are gone, and a defunct
\* asset is new.
C5_Witness ==
  /\ pc = "diffed"
  /\ \E asset \in assets_db.defunct :
       asset \in AssetsOf(prev_assets[1]) \ AssetsOf(curr_assets[1])
  /\ \E asset \in assets_db.defunct : asset \in RowAssets(Changes.new)
  /\ Changes.missing # {}

\* C6: with no asset defunct, the new rows of diff(A, B) are the missing rows
\* of diff(B, A), the missing rows of diff(A, B) are the new rows of
\* diff(B, A), and (a, L1, L2) is moved in diff(A, B) exactly when
\* (a, L2, L1) is moved in diff(B, A).
C6_DiffSymmetry ==
  (pc = "diffed" /\ assets_db.defunct = {}) =>
    LET back == report_asset_changes(curr_assets[1], prev_assets[1], assets_db, iter_order)
    IN  /\ Changes.new = back.missing
        /\ Changes.missing = back.new
        /\ \A row \in Changes.moved : <<row[1], row[3], row[2]>> \in back.moved
        /\ \A row \in back.moved : <<row[1], row[3], row[2]>> \in Changes.moved

\* A diff with no defunct asset and rows of the three kinds, between
\* snapshots that share an asset.
C6_Witness ==
  /\ pc = "diffed"
  /\ assets_db.defunct = {}
  /\ Changes.new # {}
  /\ Changes.missing # {}
  /\ Changes.moved # {}

-----------------------------------------------------------------------------
(* Properties of the progress, under SpecProgress.                          *)

\* C7: with a known location, the progress is printed with a percentage in
\* 1..100 (1 for a raw 0, 100 for a raw percentage above 100) and a colour
\* index inside the colour table.
C7_ProgressBounds ==
  (pc \in {"progressed", "crashed"} /\ assets_db.locations # {}) =>
    LET progress == output[Len(output)]
        raw == RawPercentage(curr_assets[1], assets_db)
    IN  /\ progress.kind = "progress"
        /\ progress.percentage \in 1..100
        /\ raw = 0 => progress.percentage = 1
        /\ raw > 100 => progress.percentage = 100
        /\ raw \in 1..100 => progress.percentage = raw
        /\ progress.color_index \in 0..(Len(percentage_to_color) - 1)
        /\ progress.color = percentage_to_color[progress.color_index + 1]

\* A progress whose raw percentage is above 100.
C7_Witness ==
  /\ pc = "progressed"
  /\ RawPercentage(curr_assets[1], assets_db) > 100
  /\ output[Len(output)].percentage = 100
  /\ output[Len(output)].color = "lime"

\* C9: with a known location, the raw percentage is 100 times the number of
\* known locations that are keys of the snapshot, divided by the number of
\* known locations and rounded down; the missed locations are the known
\* locations that are not keys; a printed 100 comes with no missed location.
C9_PercentageOfKnown ==
  pc = "progressed" =>
    LET progress == output[Len(output)]
        known == assets_db.locations
        present == known \cap DOMAIN curr_assets[1]
    IN  /\ RawPercentage(curr_assets[1], assets_db)
             = (Cardinality(present) * 100) \div Cardinality(known)
        /\ progress.missed = known \ DOMAIN curr_assets[1]
        /\ progress.percentage = 100 => progress.missed = {}

-----------------------------------------------------------------------------
(* Properties of the run, under Spec.                                       *)

\* C8: a run that has ended in an error has printed no part of the report:
\* no title, no inventory, no heading, no dated section.
C8_NoPartialReport ==
  pc \in {"error", "crashed"} =>
    \A i \in 1..Len(output) : output[i].kind = "error"

\* The snapshot of the scan of date d.
SnapshotOf(d) == get_tags_by_location(scans[d]).value

\* The scan dates before d.
Earlier(d) == {e \in DOMAIN scans : e < d}

\* The positions of the date headings in the output.
DateHeadings == {i \in 1..Len(output) : output[i].kind = "date_heading"}

\* C10: a completed report over n >= 1 scans has n - 1 dated sections, in
\* ascending order of date, one for each scan but the earliest; the section
\* of a scan holds its progress and the diff from the snapshot of the scan
\* before it by date.  At every point of the loop the sections printed are
\* ascending.
C10_DatedSections ==
  /\ \A i, j \in DateHeadings : i < j => output[i].date < output[j].date
  /\ pc = "done" =>
       /\ Cardinality(DOMAIN scans) >= 1
       /\ Cardinality(DateHeadings) = Cardinality(DOMAIN scans) - 1
       /\ {output[i].date : i \in DateHeadings}
            = {d \in DOMAIN scans : Earlier(d) # {}}
       /\ \A i \in DateHeadings :
            LET d == output[i].date
                before == CHOOSE e \in Earlier(d) : \A x \in Earlier(d) : x <= e
            IN  /\ i + 2 <= Len(output)
                /\ output[i + 1] = report_scan_progress(SnapshotOf(d), assets_db)
                /\ output[i + 2] = report_asset_changes(SnapshotOf(before), SnapshotOf(d),
                                                        assets_db, iter_order)

\* A completed report over three scans with three different snapshots, in
\* which an asset moved.
C10_Witness ==
  /\ pc = "done"
  /\ Cardinality(DOMAIN scans) = 3
  /\ \A d, e \in DOMAIN scans : d # e => SnapshotOf(d) # SnapshotOf(e)
  /\ Cardinality(DateHeadings) = 2
  /\ \E i \in 1..Len(output) : output[i].kind = "changes" /\ output[i].moved # {}

====
